---- MODULE Spec2Model ----
(***************************************************************************)
(* ceph-read-bench.py: a read benchmark for a Ceph pool.                   *)
(*                                                                         *)
(* main checks/creates the pool, bench_test samples a workload             *)
(* (prepare_objs), runs it through a ThreadPoolExecutor whose tasks issue  *)
(* asynchronous reads (obj_aio_read), waits for every task and every       *)
(* completion (wait_finish), closes the I/O context and aggregates the     *)
(* result slots (collect_and_print_statistics); main then deletes a pool   *)
(* it created.                                                             *)
(*                                                                         *)
(* Time is counted in clock ticks, TicksPerSec ticks to the second.        *)
(* Probabilities are exact rationals (weight / sum of weights).            *)
(***************************************************************************)
EXTENDS Integers, Sequences, FiniteSets, TLC

\* ------------------------------------------------------------------ bounds
MaxObjs == 2        \* objects in the pool's listing: 0..MaxObjs
MaxReads == 2       \* --total-reads is drawn from 1..MaxReads
MaxThreads == 2     \* --threads is drawn from 0..MaxThreads
MaxTime == 3        \* the clock stops advancing at MaxTime ticks
TicksPerSec == 2    \* clock ticks in one second
MaxSampleObjs == 4  \* listing sizes 0..MaxSampleObjs when only the sampler runs
MaxSampleReads == 6 \* --total-reads in 1..MaxSampleReads when only the sampler runs

\* --zipf-parm values (exponents a of the Zipf law, integers so that the
\* probability mass is an exact rational)
ZipfParms == {2, 3}

\* ----------------------------------------------------------------- helpers
RECURSIVE SeqSum(_)
SeqSum(s) == IF s = <<>> THEN 0 ELSE Head(s) + SeqSum(Tail(s))

RECURSIVE Pow(_, _)
Pow(b, e) == IF e = 0 THEN 1 ELSE b * Pow(b, e - 1)

RECURSIVE Fact(_)
Fact(n) == IF n <= 1 THEN 1 ELSE n * Fact(n - 1)

RECURSIVE Repeat(_, _)
Repeat(x, n) == IF n <= 0 THEN <<>> ELSE <<x>> \o Repeat(x, n - 1)

SeqMin(s) == CHOOSE x \in {s[i] : i \in DOMAIN s} : \A j \in DOMAIN s : x <= s[j]
SeqMax(s) == CHOOSE x \in {s[i] : i \in DOMAIN s} : \A j \in DOMAIN s : x >= s[j]

\* number of positions of s holding x
Occurrences(s, x) == Cardinality({i \in DOMAIN s : s[i] = x})

Range(s) == {s[i] : i \in DOMAIN s}

\* s without its first occurrence of x
RemoveOne(s, x) ==
  LET k == CHOOSE i \in DOMAIN s : s[i] = x /\ \A j \in 1..(i - 1) : s[j] # x
  IN SubSeq(s, 1, k - 1) \o SubSeq(s, k + 1, Len(s))

\* random.shuffle(s): every rearrangement of s is a possible outcome
RECURSIVE Shuffles(_)
Shuffles(s) ==
  IF s = <<>> THEN {<<>>}
  ELSE UNION {{<<x>> \o t : t \in Shuffles(RemoveOne(s, x))} : x \in Range(s)}

\* ----------------------------------------------------------------- listing
\* list(ioctx.list_objects()) with obj.stat()[0]: M objects, distinct keys,
\* the object with key k having size 10*k.
Listing(M) == [i \in 1..M |-> [key |-> i, len |-> 10 * i]]


\* ----------------------------------------------------------------- sampler
\* faulty variant of UniformIdx: the wrap-around index is off by one
UniformIdxShifted(count, obj_num) == (count + 1) % obj_num

\* prepare_objs, uniform mode, line 50: the listing index a wrapped request copies
UniformIdx(count, obj_num) == count % obj_num

\* prepare_objs, uniform mode, lines 49-52: the while loop
RECURSIVE UniformWrap(_, _, _, _)
UniformWrap(objs, count, obj_num, reads_num) ==
  IF count < reads_num
    THEN UniformWrap(Append(objs, objs[UniformIdx(count, obj_num) + 1]),
                     count + 1, obj_num, reads_num)
    ELSE objs

\* prepare_objs, uniform mode, lines 43-47: the for loop returns as soon as
\* count == reads_num, before the shuffle of line 54
UniformEarlyReturn(cluster_objects, reads_num) == Len(cluster_objects) >= reads_num

\* faulty variant of UniformObjs: the for loop tests count > reads_num, one entry late
UniformObjsOffByOne(cluster_objects, reads_num) ==
  IF Len(cluster_objects) > reads_num
    THEN SubSeq(cluster_objects, 1, reads_num + 1)
    ELSE UniformWrap(cluster_objects, Len(cluster_objects), Len(cluster_objects), reads_num)

\* prepare_objs, uniform mode: objs as it stands when the function reaches
\* return objs at line 47 or shuffle(objs) at line 54
UniformObjs(cluster_objects, reads_num) ==
  IF UniformEarlyReturn(cluster_objects, reads_num)
    THEN SubSeq(cluster_objects, 1, reads_num)
    ELSE UniformWrap(cluster_objects, Len(cluster_objects), Len(cluster_objects), reads_num)

\* zipf.pmf(i, a) for i in 1..M, normalised by line 23: p_i = i^-a / sum_j j^-a,
\* written as the integer weight (M!/i)^a over the sum of the weights
ZipfWeights(M, a) == [i \in 1..M |-> Pow(Fact(M) \div i, a)]

\* faulty variant of ZipfCount: an admitted rank gets int(p*reads_num) only
ZipfCountNoPlusOne(w, sumw, reads_num, count) ==
  IF count < reads_num THEN (w * reads_num) \div sumw ELSE 0

\* faulty variant of ZipfCount: the admission test is inverted
ZipfCountGuardInverted(w, sumw, reads_num, count) ==
  IF count >= reads_num THEN ((w * reads_num) \div sumw) + 1 ELSE 0

\* line 27: c = int(p*reads_num) + 1 if count < reads_num else 0, p = w/sumw
ZipfCount(w, sumw, reads_num, count) ==
  IF count < reads_num THEN ((w * reads_num) \div sumw) + 1 ELSE 0

\* lines 25-29: the loop building objs_c
RECURSIVE ZipfCountsFrom(_, _, _, _, _)
ZipfCountsFrom(ws, sumw, reads_num, i, count) ==
  IF i > Len(ws) THEN <<>>
  ELSE LET c == ZipfCount(ws[i], sumw, reads_num, count)
       IN <<c>> \o ZipfCountsFrom(ws, sumw, reads_num, i + 1, count + c)

\* objs_c before shuffle(objs_c) at line 31
ZipfCounts(M, reads_num, a) ==
  LET ws == ZipfWeights(M, a)
  IN ZipfCountsFrom(ws, SeqSum(ws), reads_num, 1, 0)

\* lines 33-40: objs_c[i] copies of listing object i, in listing order
RECURSIVE ZipfExpand(_, _, _)
ZipfExpand(cluster_objects, objs_c, i) ==
  IF i > Len(cluster_objects) THEN <<>>
  ELSE Repeat(cluster_objects[i], objs_c[i]) \o ZipfExpand(cluster_objects, objs_c, i + 1)

\* prepare_objs raises: ZeroDivisionError at line 50 (count % 0) in uniform
\* mode, TypeError at line 23 ([] /= 0) in Zipf mode, both on an empty listing
PrepareRaises(cluster_objects, reads_num, use_zipf) ==
  IF use_zipf THEN Len(cluster_objects) = 0
  ELSE Len(cluster_objects) = 0 /\ 0 < reads_num

\* prepare_objs: the sequences it can return
PrepareResults(cluster_objects, reads_num, use_zipf, zipf_parm) ==
  IF use_zipf
    THEN UNION {Shuffles(ZipfExpand(cluster_objects, c, 1)) :
                  c \in Shuffles(ZipfCounts(Len(cluster_objects), reads_num, zipf_parm))}
    ELSE IF UniformEarlyReturn(cluster_objects, reads_num)
      THEN {UniformObjs(cluster_objects, reads_num)}
      ELSE Shuffles(UniformObjs(cluster_objects, reads_num))

\* -------------------------------------------------------------- aggregator
\* the slots collect_and_print_statistics keeps (line 96), in slot order
Finished(res) == SelectSeq(res, LAMBDA r : r.finish)

\* line 98, folded over the kept slots: base_t ends as the least start
RECURSIVE BaseFrom(_, _, _)
BaseFrom(fin, i, base_t) ==
  IF i > Len(fin) THEN base_t
  ELSE BaseFrom(fin, i + 1,
                IF base_t = 0 \/ fin[i].start < base_t THEN fin[i].start ELSE base_t)

\* faulty variant of BaseT: the comparison of line 98 is reversed, so base_t
\* ends as the greatest start
BaseTCompareReversed(res) ==
  LET fin == Finished(res)
  IN IF Len(fin) = 0 THEN 0 ELSE SeqMax([i \in 1..Len(fin) |-> fin[i].start])

BaseT(res) == BaseFrom(Finished(res), 1, 0)

\* line 99: end
Ends(res) == LET fin == Finished(res) IN [i \in 1..Len(fin) |-> fin[i].end]

\* line 100 divides by r['end'] - r['start']: ZeroDivisionError when they are equal
AggRaises(res) == \E i \in DOMAIN res : res[i].finish /\ res[i].end = res[i].start

\* lines 100, 104: bandwidth samples in MB/s as exact fractions num/den
\* (len bytes in (end-start)/TicksPerSec seconds, over 1000*1000)
AggBw(res) ==
  LET fin == Finished(res) IN
  IF Len(fin) = 0 THEN <<[num |-> 0, den |-> 1]>>
  ELSE [i \in 1..Len(fin) |->
          [num |-> fin[i].len * TicksPerSec, den |-> (fin[i].end - fin[i].start) * 1000000]]

\* faulty variant of AggLat: no zero sample is synthesised when nothing completed
AggLatNoSynth(res) ==
  LET fin == Finished(res) IN [i \in 1..Len(fin) |-> fin[i].end - fin[i].start]

\* lines 101, 105: latency samples, in ticks
AggLat(res) ==
  LET fin == Finished(res) IN
  IF Len(fin) = 0 THEN <<0>>
  ELSE [i \in 1..Len(fin) |-> fin[i].end - fin[i].start]

\* line 111: int(e - base_t), the one-second bucket an end time falls into
BucketOf(e, base_t) == (e - base_t) \div TicksPerSec

\* faulty variant of TotalLat: the + 1 of line 108 is missing
TotalLatNoPlusOne(res) == BucketOf(SeqMax(Ends(res)), BaseT(res))

\* faulty variant of TotalLat: one bucket too many
TotalLatPlusTwo(res) == BucketOf(SeqMax(Ends(res)), BaseT(res)) + 2

\* line 108: total_lat = int(max(end) - base_t) + 1
TotalLat(res) == BucketOf(SeqMax(Ends(res)), BaseT(res)) + 1

\* lines 103-111: iops
AggIops(res) ==
  IF Len(Finished(res)) = 0 THEN <<0>>
  ELSE LET end == Ends(res)
           base_t == BaseT(res)
       IN [b \in 1..TotalLat(res) |->
             Cardinality({i \in DOMAIN end : BucketOf(end[i], base_t) = b - 1})]

\* ------------------------------------------------------------------- state
VARIABLES
  reads_num,        \* args.total_reads
  threads,          \* args.threads
  use_zipf,         \* args.enable_zipf_distribution
  zipf_parm,        \* args.zipf_parm
  pool_exists,      \* whether the cluster has the pool args.pool
  cluster_objects,  \* the pool's object listing
  pc,               \* where the main thread is
  new_create,       \* main's new_create
  ioctx_open,       \* bench_test's ioctx is open
  objs,             \* bench_test's objs, the request sequence
  read_res,         \* bench_test's read_res, the result slots
  task,             \* per request: the state of its pool task (its future)
  aio,              \* per request: its asynchronous read: "none" (not issued),
                    \* "outstanding", "done" or "failed" (callback has run)
  submitted,        \* number of worker.submit calls made
  wait_idx,         \* wait_finish's position in handlers
  now,              \* time.time(), in ticks
  bw_mbs, iops, lat,\* the samples handed to print_statistics
  writers           \* per slot: the requests (tids) on whose behalf it was written

vars == <<reads_num, threads, use_zipf, zipf_parm, pool_exists, cluster_objects,
          pc, new_create, ioctx_open, objs, read_res, task, aio, submitted,
          wait_idx, now, bw_mbs, iops, lat, writers>>

args == <<reads_num, threads, use_zipf, zipf_parm>>
report == <<bw_mbs, iops, lat>>

\* line 123: a result slot as created
InitialSlot == [start |-> 0, end |-> 0, len |-> 0, finish |-> FALSE]

\* line 191: --threads accepts choices=range(0,31), so 0 up to 30
ThreadsChoiceMin == 0
ThreadsChoiceMax == 30

\* line 146: the worker count main passes to bench_test
ThreadsNum == IF threads < reads_num THEN threads ELSE reads_num

\* lines 122-123: the number of result slots bench_test creates
NumSlots == reads_num

\* faulty variant of SlotOf: every request writes the first slot
SlotOfFirst(tid) == 1

\* lines 60-64: the slot obj_aio_read and its callback write for request tid
SlotOf(tid) == tid

\* tasks a worker thread is executing
Busy == {i \in DOMAIN task : task[i] = "running"}

\* asynchronous reads issued whose completion callback has not run
Outstanding == {i \in DOMAIN aio : aio[i] = "outstanding"}

\* faulty variant of CompletionAcked: wait_finish joins the pool task only
CompletionAckedNoWait(i) == TRUE

\* line 71: comp.wait_for_complete_and_cb() returns once the read has
\* completed and its callback has run
CompletionAcked(i) == aio[i] \in {"done", "failed"}

\* faulty variant of StampStart: the start time is not recorded
StampStartOmitted(r, t) == r

\* line 64: read_res[tid]['start'] = time.time(), applied to slot r at time t
StampStart(r, t) == [r EXCEPT !.start = t]

\* faulty variant of AioReadComplete: a failed read is recorded like an empty one
AioReadCompleteNoRaise(r, t, data) ==
  [r EXCEPT !.end = t, !.len = IF data.ok THEN data.len ELSE 0, !.finish = TRUE]

\* lines 60-62: aio_read_complete(_, data) applied to slot r at time t;
\* data is None on a failed read and len(None) raises at line 61
AioReadComplete(r, t, data) ==
  IF data.ok
    THEN [r EXCEPT !.end = t, !.len = data.len, !.finish = TRUE]
    ELSE [r EXCEPT !.end = t]

\* the pool: absent, or present with 0..maxObjs objects; a pool that main
\* has to create is empty
InitWith(maxObjs, maxReads) ==
  /\ reads_num \in 1..maxReads
  /\ threads \in {t \in ThreadsChoiceMin..ThreadsChoiceMax : t <= MaxThreads}
  /\ use_zipf \in BOOLEAN
  /\ zipf_parm \in ZipfParms
  /\ pool_exists \in BOOLEAN
  /\ cluster_objects \in {Listing(M) : M \in 0..maxObjs}
  /\ (~pool_exists => cluster_objects = <<>>)
  /\ (~use_zipf => zipf_parm = 2)
  /\ pc = "main"
  /\ new_create = FALSE
  /\ ioctx_open = FALSE
  /\ objs = <<>>
  /\ read_res = <<>>
  /\ task = <<>>
  /\ aio = <<>>
  /\ submitted = 0
  /\ wait_idx = 0
  /\ now = 1
  /\ bw_mbs = <<>> /\ iops = <<>> /\ lat = <<>>
  /\ writers = <<>>

Init == InitWith(MaxObjs, MaxReads)

\* ----------------------------------------------------------------- actions
\* main, lines 140-147: create the pool if it is missing, call bench_test
MainPoolCheck ==
  /\ pc = "main"
  /\ new_create' = ~pool_exists
  /\ pool_exists' = TRUE
  /\ pc' = "prepare"
  /\ UNCHANGED <<args, cluster_objects, ioctx_open, objs, read_res, task, aio,
                 submitted, wait_idx, now, report, writers>>

\* bench_test, lines 117-119: open the I/O context and sample the workload
PrepareObjs ==
  /\ pc = "prepare"
  /\ ioctx_open' = TRUE
  /\ IF PrepareRaises(cluster_objects, reads_num, use_zipf)
       THEN pc' = "raised" /\ objs' = objs
       ELSE /\ objs' \in PrepareResults(cluster_objects, reads_num, use_zipf, zipf_parm)
            /\ pc' = "setup"
  /\ UNCHANGED <<args, pool_exists, cluster_objects, new_create, read_res, task,
                 aio, submitted, wait_idx, now, report, writers>>

\* bench_test, lines 121-126: create the slots and the executor;
\* ThreadPoolExecutor(max_workers <= 0) raises ValueError
BenchSetup ==
  /\ pc = "setup"
  /\ read_res' = [i \in 1..NumSlots |-> InitialSlot]
  /\ writers' = [i \in 1..NumSlots |-> {}]
  /\ task' = [i \in 1..reads_num |-> "unsubmitted"]
  /\ aio' = [i \in 1..reads_num |-> "none"]
  /\ pc' = IF ThreadsNum <= 0 THEN "raised" ELSE "submit"
  /\ UNCHANGED <<args, pool_exists, cluster_objects, new_create, ioctx_open, objs,
                 submitted, wait_idx, now, report>>

\* bench_test, lines 127-128: one worker.submit; objs[i] past the end of objs
\* raises IndexError, which leaves the with block through its shutdown
Submit ==
  /\ pc = "submit"
  /\ LET i == submitted + 1 IN
     IF i > Len(objs)
       THEN pc' = "shutdown_raise" /\ UNCHANGED <<task, submitted>>
       ELSE /\ task' = [task EXCEPT ![i] = "queued"]
            /\ submitted' = i
            /\ pc' = IF i = reads_num THEN "shutdown" ELSE "submit"
  /\ UNCHANGED <<args, pool_exists, cluster_objects, new_create, ioctx_open, objs,
                 read_res, aio, wait_idx, now, report, writers>>

\* a free worker thread takes the oldest queued task and runs obj_aio_read
\* up to line 64, which stamps the start time
StartTask(i) ==
  /\ task[i] = "queued"
  /\ \A j \in 1..(i - 1) : task[j] # "queued"
  /\ Cardinality(Busy) < ThreadsNum
  /\ read_res' = [read_res EXCEPT ![SlotOf(i)] = StampStart(@, now)]
  /\ writers' = [writers EXCEPT ![SlotOf(i)] = @ \cup {i}]
  /\ task' = [task EXCEPT ![i] = "running"]
  /\ UNCHANGED <<args, pool_exists, cluster_objects, pc, new_create, ioctx_open,
                 objs, aio, submitted, wait_idx, now, report>>

\* obj_aio_read, lines 65-66: ioctx.aio_read issues the read and the task
\* returns its completion; the worker thread is free again
IssueRead(i) ==
  /\ task[i] = "running"
  /\ task' = [task EXCEPT ![i] = "returned"]
  /\ aio' = [aio EXCEPT ![i] = "outstanding"]
  /\ UNCHANGED <<args, pool_exists, cluster_objects, pc, new_create, ioctx_open,
                 objs, read_res, submitted, wait_idx, now, report, writers>>

\* obj_aio_read, line 65: ioctx.aio_read raises; the future holds the exception
IssueRaise(i) ==
  /\ task[i] = "running"
  /\ task' = [task EXCEPT ![i] = "raised"]
  /\ UNCHANGED <<args, pool_exists, cluster_objects, pc, new_create, ioctx_open,
                 objs, read_res, aio, submitted, wait_idx, now, report, writers>>

\* aio_read_complete, lines 59-62, called by librados with the data read
\* (the whole object) or with None after a failed read
Callback(i, ok) ==
  /\ aio[i] = "outstanding"
  /\ read_res' = [read_res EXCEPT
                    ![SlotOf(i)] = AioReadComplete(@, now, [ok |-> ok, len |-> objs[i].len])]
  /\ writers' = [writers EXCEPT ![SlotOf(i)] = @ \cup {i}]
  /\ aio' = [aio EXCEPT ![i] = IF ok THEN "done" ELSE "failed"]
  /\ UNCHANGED <<args, pool_exists, cluster_objects, pc, new_create, ioctx_open,
                 objs, task, submitted, wait_idx, now, report>>

\* time passes while the benchmark runs
Tick ==
  /\ pc \in {"submit", "shutdown", "wait"}
  /\ now < MaxTime
  /\ now' = now + 1
  /\ UNCHANGED <<args, pool_exists, cluster_objects, pc, new_create, ioctx_open,
                 objs, read_res, task, aio, submitted, wait_idx, report, writers>>

\* line 126, leaving the with block: shutdown(wait=True) returns when no task
\* is queued or running
ExecutorExit ==
  /\ pc \in {"shutdown", "shutdown_raise"}
  /\ \A i \in DOMAIN task : task[i] \in {"unsubmitted", "returned", "raised"}
  /\ pc' = IF pc = "shutdown" THEN "wait" ELSE "raised"
  /\ wait_idx' = 1
  /\ UNCHANGED <<args, pool_exists, cluster_objects, new_create, ioctx_open, objs,
                 read_res, task, aio, submitted, now, report, writers>>

\* wait_finish, lines 69-71, one handler: handler.result() re-raises the
\* task's exception, comp.wait_for_complete_and_cb() blocks until acknowledged
WaitFinish ==
  /\ pc = "wait"
  /\ IF task[wait_idx] = "raised"
       THEN pc' = "raised" /\ wait_idx' = wait_idx
       ELSE /\ task[wait_idx] = "returned"
            /\ CompletionAcked(wait_idx)
            /\ wait_idx' = wait_idx + 1
            /\ pc' = IF wait_idx = Len(task) THEN "close" ELSE "wait"
  /\ UNCHANGED <<args, pool_exists, cluster_objects, new_create, ioctx_open, objs,
                 read_res, task, aio, submitted, now, report, writers>>

\* bench_test, line 131
IoctxClose ==
  /\ pc = "close"
  /\ ioctx_open' = FALSE
  /\ pc' = "collect"
  /\ UNCHANGED <<args, pool_exists, cluster_objects, new_create, objs, read_res,
                 task, aio, submitted, wait_idx, now, report, writers>>

\* bench_test, line 133: collect_and_print_statistics(read_res)
CollectStats ==
  /\ pc = "collect"
  /\ IF AggRaises(read_res)
       THEN pc' = "raised" /\ UNCHANGED report
       ELSE /\ bw_mbs' = AggBw(read_res)
            /\ lat' = AggLat(read_res)
            /\ iops' = AggIops(read_res)
            /\ pc' = "delete"
  /\ UNCHANGED <<args, pool_exists, cluster_objects, new_create, ioctx_open, objs,
                 read_res, task, aio, submitted, wait_idx, now, writers>>

\* main, lines 150-151
MainDeletePool ==
  /\ pc = "delete"
  /\ pool_exists' = IF new_create THEN FALSE ELSE pool_exists
  /\ pc' = "done"
  /\ UNCHANGED <<args, cluster_objects, new_create, ioctx_open, objs, read_res,
                 task, aio, submitted, wait_idx, now, report, writers>>

Next ==
  \/ MainPoolCheck
  \/ PrepareObjs
  \/ BenchSetup
  \/ Submit
  \/ \E i \in DOMAIN task : StartTask(i)
  \/ \E i \in DOMAIN task : IssueRead(i)
  \/ \E i \in DOMAIN task : IssueRaise(i)
  \/ \E i \in DOMAIN aio : \E ok \in BOOLEAN : Callback(i, ok)
  \/ Tick
  \/ ExecutorExit
  \/ WaitFinish
  \/ IoctxClose
  \/ CollectStats
  \/ MainDeletePool

Spec == Init /\ [][Next]_vars

\* the run under fair scheduling: the main thread keeps running, a free
\* worker thread eventually takes a queued task and finishes the call it is
\* in, and librados eventually calls back for every read it was given.
\* Nothing obliges aio_read to raise.
MainStep ==
  \/ MainPoolCheck
  \/ PrepareObjs
  \/ BenchSetup
  \/ Submit
  \/ ExecutorExit
  \/ WaitFinish
  \/ IoctxClose
  \/ CollectStats
  \/ MainDeletePool

Fairness ==
  /\ WF_vars(MainStep)
  /\ \A i \in 1..MaxReads :
       /\ WF_vars(i \in DOMAIN task /\ StartTask(i))
       /\ WF_vars(i \in DOMAIN task /\ IssueRead(i))
       /\ WF_vars(i \in DOMAIN aio /\ \E ok \in BOOLEAN : Callback(i, ok))

SpecFair == Init /\ [][Next]_vars /\ Fairness

\* main up to the return of prepare_objs, over larger listings and read counts
InitSampler == InitWith(MaxSampleObjs, MaxSampleReads)

NextSampler ==
  \/ MainPoolCheck
  \/ PrepareObjs

SpecSampler == InitSampler /\ [][NextSampler]_vars

\* ------------------------------------------------------------------ claims
\* bench_test has created the slots and the run has not been abandoned
Dispatching == pc \in {"submit", "shutdown", "wait", "close", "collect", "delete", "done"}

\* collect_and_print_statistics has handed its samples to print_statistics
Reported == pc \in {"delete", "done"}

\* requests whose read completed with data / failed
DoneReads == {i \in DOMAIN aio : aio[i] = "done"}
FailedReads == {i \in DOMAIN aio : aio[i] = "failed"}

\* C1: with 1 <= W <= N, the number of asynchronous reads issued whose
\* completion callback has not yet run never exceeds W.
C1_OutstandingAtMostW ==
  (1 <= ThreadsNum /\ ThreadsNum <= reads_num) => Cardinality(Outstanding) <= ThreadsNum

\* C2: once aggregation begins, every request's pool task has returned and
\* every request's read has been acknowledged (its callback has run), so no
\* callback can write a slot during or after aggregation.
C2_AggregationAfterAllAcked ==
  pc \in {"collect", "delete", "done"} =>
    \A i \in 1..reads_num :
      /\ task[i] = "returned"
      /\ aio[i] \in {"done", "failed"}
      /\ \A ok \in BOOLEAN : ~ENABLED Callback(i, ok)

C2_Witness ==
  /\ pc = "collect"
  /\ reads_num = 2
  /\ \A i \in 1..2 : read_res[i].finish

\* C3: uniform mode, listing of M objects, 1 <= N <= M: prepare_objs returns
\* exactly N requests, each of the first N listing entries exactly once.
C3_UniformPermutationOfFirstN ==
  (pc = "setup" /\ ~use_zipf /\ reads_num <= Len(cluster_objects)) =>
    /\ Len(objs) = reads_num
    /\ \A k \in 1..reads_num : Occurrences(objs, cluster_objects[k]) = 1

C3_Witness ==
  /\ pc = "setup" /\ ~use_zipf
  /\ reads_num = 4
  /\ cluster_objects = Listing(4)
  /\ {objs[i].len : i \in DOMAIN objs} = {10, 20, 30, 40}

\* C4: uniform mode, M >= 1, N > M: prepare_objs returns exactly N requests,
\* every listing object at least floor(N/M) times, and the request created at
\* position i (from 0, before the shuffle) copies listing entry i mod M.
C4_UniformWrapAround ==
  (pc = "setup" /\ ~use_zipf /\ 1 <= Len(cluster_objects)
     /\ reads_num > Len(cluster_objects)) =>
    LET M == Len(cluster_objects)
        pre == UniformObjs(cluster_objects, reads_num)
    IN /\ Len(objs) = reads_num
       /\ \A k \in 1..M : Occurrences(objs, cluster_objects[k]) >= reads_num \div M
       /\ Len(pre) = reads_num
       /\ \A i \in 0..(reads_num - 1) : pre[i + 1] = cluster_objects[(i % M) + 1]
       /\ \A k \in 1..M :
            Occurrences(objs, cluster_objects[k]) = Occurrences(pre, cluster_objects[k])

C4_Witness ==
  /\ pc = "setup" /\ ~use_zipf
  /\ Len(cluster_objects) = 2
  /\ reads_num = 5
  /\ objs[1] = cluster_objects[2]

\* C5: Zipf mode: the per-rank counts c_i (floor(p_i*N)+1 while the running
\* total is below N, else 0) are non-increasing in rank before the
\* correspondence shuffle, and the number of requests produced, which is
\* their sum, differs from N by at most M.
C5_ZipfCounts ==
  (pc = "setup" /\ use_zipf) =>
    LET M == Len(cluster_objects)
        c == ZipfCounts(M, reads_num, zipf_parm)
    IN /\ Len(c) = M
       /\ \A i, j \in 1..M : i < j => c[i] >= c[j]
       /\ Len(objs) = SeqSum(c)
       /\ Len(objs) - reads_num <= M
       /\ reads_num - Len(objs) <= M

C5_Witness ==
  /\ pc = "setup" /\ use_zipf
  /\ Len(cluster_objects) = 4
  /\ reads_num = 6
  /\ ZipfCounts(4, reads_num, zipf_parm) = <<5, 2, 0, 0>>
  /\ Len(objs) = 7

\* C6 as stated: throughout a run, in either mode, the number of slots equals
\* the length of the request sequence, both equal N, and slot i is written
\* only on behalf of request i.
C6_Original ==
  Dispatching =>
    /\ Len(read_res) = Len(objs)
    /\ Len(objs) = reads_num
    /\ \A i \in DOMAIN writers : writers[i] \subseteq {i}

\* C6 as amended: throughout a run the number of slots equals N and slot i is
\* written only on behalf of request i; the request sequence has length N in
\* uniform mode and a length from N to N+M in Zipf mode.
C6_SlotsAndRequests ==
  Dispatching =>
    /\ Len(read_res) = reads_num
    /\ (~use_zipf => Len(objs) = reads_num)
    /\ (use_zipf => /\ reads_num <= Len(objs)
                    /\ Len(objs) <= reads_num + Len(cluster_objects))
    /\ \A i \in DOMAIN writers : writers[i] \subseteq {i}

C6_Witness ==
  /\ pc = "done"
  /\ use_zipf
  /\ reads_num = 2
  /\ Len(objs) = 3
  /\ writers = <<{1}, {2}>>

\* C7: given slots none of which is completed (all reads failed included),
\* collect_and_print_statistics raises nothing and reports from exactly one
\* zero-valued sample per family: bandwidth=[0], iops=[0], latency=[0].
C7_ZeroCompleted ==
  [][(pc = "collect" /\ Finished(read_res) = <<>>) =>
       /\ pc' = "delete"
       /\ bw_mbs' = <<[num |-> 0, den |-> 1]>>
       /\ iops' = <<0>>
       /\ lat' = <<0>>]_vars

C7_Witness ==
  /\ pc = "delete"
  /\ reads_num = 2
  /\ FailedReads = {1, 2}
  /\ iops = <<0>>

\* number of completed slots
Completed == Len(Finished(read_res))

\* C8 as stated: k >= 1 completed slots, all with the same value of
\* floor(endTime - baseTime): the reported IOPS have min = max = avg = k.
C8_Original ==
  (Reported /\ Completed >= 1
     /\ \A i, j \in DOMAIN read_res :
          (read_res[i].finish /\ read_res[j].finish) =>
            BucketOf(read_res[i].end, BaseT(read_res)) = BucketOf(read_res[j].end, BaseT(read_res))) =>
    /\ SeqMin(iops) = Completed
    /\ SeqMax(iops) = Completed
    /\ SeqSum(iops) = Completed * Len(iops)

\* C8 as amended: k >= 1 completed slots, all ending within the first whole
\* second after baseTime (floor(endTime - baseTime) = 0): the reported IOPS
\* have min = max = avg = k.
C8_SameFirstSecond ==
  (Reported /\ Completed >= 1
     /\ \A i \in DOMAIN read_res :
          read_res[i].finish => BucketOf(read_res[i].end, BaseT(read_res)) = 0) =>
    /\ SeqMin(iops) = Completed
    /\ SeqMax(iops) = Completed
    /\ SeqSum(iops) = Completed * Len(iops)

C8_Witness ==
  /\ Reported
  /\ Completed = 2
  /\ iops = <<2>>

\* what C9 states of a failed read, but for the slot staying as created:
\* completed is never set, the read counts as acknowledged at the wait
\* barrier, and the slot adds nothing to any family of samples
FailedReadExcluded ==
  /\ \A i \in FailedReads : ~read_res[i].finish /\ read_res[i].len = 0
  /\ (pc = "wait" /\ task[wait_idx] = "returned" /\ wait_idx \in FailedReads) =>
       ENABLED WaitFinish
  /\ (Reported /\ DoneReads # {}) =>
       /\ Len(bw_mbs) = Cardinality(DoneReads)
       /\ Len(lat) = Cardinality(DoneReads)
       /\ SeqSum(iops) = Cardinality(DoneReads)
  /\ (Reported /\ DoneReads = {}) =>
       /\ bw_mbs = <<[num |-> 0, den |-> 1]>>
       /\ lat = <<0>>
       /\ iops = <<0>>

\* C9 as stated: after a failed read the slot never gets completed = true and
\* stays in its initial state (what the callback writes, end, len and finish,
\* keeps its initial value), the run passes the barrier and reaches
\* aggregation, and the slot contributes to no sample.
C9_Original ==
  /\ FailedReadExcluded
  /\ \A i \in FailedReads :
       /\ read_res[i].end = InitialSlot.end
       /\ read_res[i].len = InitialSlot.len
       /\ read_res[i].finish = InitialSlot.finish

\* C9 as amended: after a failed read the slot keeps completed = false and
\* bytesRead = 0, but it does not stay in its initial state: its start time
\* is stamped before the read is issued and its end time by the callback
\* before it fails; the run passes the barrier and reaches aggregation, and
\* the slot contributes to no sample.
C9_FailedRead ==
  /\ FailedReadExcluded
  /\ \A i \in FailedReads :
       /\ read_res[i].start > 0
       /\ read_res[i].end >= read_res[i].start
       /\ read_res[i] # InitialSlot

C9_Witness ==
  /\ pc = "done"
  /\ FailedReads = {1}
  /\ DoneReads = {2}
  /\ Len(lat) = 1

\* C10: a pool that did not exist is created before the benchmark and has
\* been deleted when the run ends, however it ends.
C10_CreatedPoolDeleted ==
  /\ pc \notin {"main", "done", "raised"} => pool_exists
  /\ (pc \in {"done", "raised"} /\ new_create) => ~pool_exists


\* C11: in uniform mode the returned sequence has passed through the shuffle
\* on every path, for M >= N as for M < N: every rearrangement of the selected
\* requests is a possible return value of prepare_objs.
C11_UniformAlwaysShuffled ==
  (pc = "prepare" /\ ~use_zipf /\ ~PrepareRaises(cluster_objects, reads_num, use_zipf)) =>
    PrepareResults(cluster_objects, reads_num, use_zipf, zipf_parm)
      = Shuffles(UniformObjs(cluster_objects, reads_num))


\* the completion fields of a slot, written by aio_read_complete only
CompletionFields(r) == <<r.end, r.len, r.finish>>

\* C12: for every request i the completion fields of slot i (end, len, finish)
\* are written by one callback only, the one created for request i, and at
\* most once: they change only in the step in which read i is acknowledged,
\* never again afterwards, and no slot is ever written for another request.
C12_OneCallbackPerSlot ==
  [][\A s \in DOMAIN read_res :
       /\ CompletionFields(read_res'[s]) # CompletionFields(read_res[s]) =>
            (aio[s] = "outstanding" /\ aio'[s] \in {"done", "failed"})
       /\ aio[s] \in {"done", "failed"} =>
            (aio'[s] = aio[s] /\ CompletionFields(read_res'[s]) = CompletionFields(read_res[s]))
       /\ writers'[s] \subseteq {s}]_vars

C12_Witness ==
  /\ pc = "wait"
  /\ reads_num = 2
  /\ aio = <<"done", "done">>
  /\ read_res[1].end < read_res[2].end
  /\ read_res[1].len # read_res[2].len
  /\ writers = <<{1}, {2}>>


\* C13: startTime is stamped by the worker that has taken the request from
\* the queue, before the read is issued and never at submission time: a
\* request not yet taken has no start time, a request taken has one, no later
\* than now, and every completed slot has startTime <= endTime.
C13_StartStampedByWorker ==
  \A i \in DOMAIN task :
    /\ task[i] \in {"unsubmitted", "queued"} => read_res[i].start = 0
    /\ task[i] \in {"running", "returned", "raised"} =>
         (1 <= read_res[i].start /\ read_res[i].start <= now)
    /\ aio[i] # "none" => read_res[i].start >= 1
    /\ read_res[i].finish => read_res[i].start <= read_res[i].end

\* request 2 waited a tick for the only worker: its start is later than its
\* submission and than request 1's start
C13_Witness ==
  /\ reads_num = 2
  /\ ThreadsNum = 1
  /\ Len(read_res) = 2
  /\ read_res[1].start = 1
  /\ read_res[2].start = 2
  /\ read_res[2].finish
  /\ read_res[2].end = 3


\* C14: while an issued read has not completed, the run has not reached
\* aggregation and has printed no report, however many other reads completed:
\* wait_finish does not get past the handler of that read, which it waits on
\* with no timeout and no cancellation.
C14_HungReadBlocksRun ==
  \A i \in Outstanding :
    /\ pc \notin {"close", "collect", "delete", "done"}
    /\ report = <<<<>>, <<>>, <<>>>>
    /\ pc = "wait" => wait_idx <= i
    /\ (pc = "wait" /\ wait_idx = i) => ~ENABLED WaitFinish

C14_Witness ==
  /\ pc = "wait"
  /\ wait_idx = 1
  /\ aio = <<"outstanding", "done">>
  /\ now = MaxTime


\* C15: for every accepted command line, the worker count main passes to
\* bench_test satisfies 1 <= W <= min(30, N).
C15_WorkerCountInRange ==
  pc # "main" =>
    /\ 1 <= ThreadsNum
    /\ ThreadsNum <= ThreadsChoiceMax
    /\ ThreadsNum <= reads_num


\* the completed slots, their least start and greatest end, taken from the
\* slots themselves
CompletedSlots == {i \in DOMAIN read_res : read_res[i].finish}
MinStart ==
  CHOOSE x \in {read_res[i].start : i \in CompletedSlots} :
    \A i \in CompletedSlots : x <= read_res[i].start
MaxEnd ==
  CHOOSE x \in {read_res[i].end : i \in CompletedSlots} :
    \A i \in CompletedSlots : x >= read_res[i].end

\* whole seconds in d ticks, rounded up / down
CeilSec(d) == (d + TicksPerSec - 1) \div TicksPerSec
FloorSec(d) == d \div TicksPerSec

\* bucket b (from 0) counts the completed slots with floor(end - baseTime) = b
BucketsCountEnds ==
  \A b \in DOMAIN iops :
    iops[b] = Cardinality({i \in CompletedSlots : FloorSec(read_res[i].end - MinStart) = b - 1})

\* C16 as stated: with a completed slot, baseTime is the least startTime of
\* the completed slots, there are exactly ceil(max(endTime) - baseTime) + 1
\* buckets, and bucket floor(endTime - baseTime) is incremented once per
\* completed slot.
C16_Original ==
  (Reported /\ Completed >= 1) =>
    /\ BaseT(read_res) = MinStart
    /\ Len(iops) = CeilSec(MaxEnd - MinStart) + 1
    /\ BucketsCountEnds

\* C16 as amended: the same, with exactly floor(max(endTime) - baseTime) + 1
\* buckets.
C16_FloorBuckets ==
  (Reported /\ Completed >= 1) =>
    /\ BaseT(read_res) = MinStart
    /\ Len(iops) = FloorSec(MaxEnd - MinStart) + 1
    /\ BucketsCountEnds

C16_Witness ==
  /\ Reported
  /\ Completed = 2
  /\ read_res[1].start < read_res[2].start
  /\ iops = <<1, 1>>


\* C17: Zipf mode, M >= 1, N >= 1: prepare_objs returns at least N requests,
\* so every index bench_test dispatches, objs[i] for i in 0..N-1 (1..N here),
\* refers to an existing request.
C17_ZipfAtLeastN ==
  (pc = "setup" /\ use_zipf /\ Len(cluster_objects) >= 1) =>
    /\ Len(objs) >= reads_num
    /\ \A i \in 1..reads_num : i \in DOMAIN objs /\ objs[i] \in Range(cluster_objects)

\* two ranks admitted, and exactly N requests
C17_Witness ==
  /\ pc = "setup" /\ use_zipf
  /\ Len(cluster_objects) = 3
  /\ reads_num = 5
  /\ ZipfCounts(3, reads_num, zipf_parm) = <<4, 1, 0>>
  /\ Len(objs) = 5


\* C18: the slots a run produces have 0 < startTime <= endTime in every
\* completed slot; for them every bucket index floor(endTime - baseTime) the
\* aggregator uses lies within 0..len(iops)-1, and the buckets add up to the
\* number of completed slots. Stated of the slots handed to the aggregator
\* and of the iops it has reported.
C18_BucketIndicesInRange ==
  /\ \A i \in CompletedSlots : 0 < read_res[i].start /\ read_res[i].start <= read_res[i].end
  /\ (pc = "collect" /\ Completed >= 1) =>
       /\ \A i \in CompletedSlots :
            /\ 0 <= BucketOf(read_res[i].end, BaseT(read_res))
            /\ BucketOf(read_res[i].end, BaseT(read_res)) <= TotalLat(read_res) - 1
       /\ Len(AggIops(read_res)) = TotalLat(read_res)
       /\ SeqSum(AggIops(read_res)) = Completed
  /\ (Reported /\ Completed >= 1) =>
       /\ \A i \in CompletedSlots :
            BucketOf(read_res[i].end, BaseT(read_res)) \in 0..(Len(iops) - 1)
       /\ SeqSum(iops) = Completed

C18_Witness ==
  /\ pc = "collect"
  /\ Completed = 2
  /\ BucketOf(read_res[1].end, BaseT(read_res)) = 0
  /\ BucketOf(read_res[2].end, BaseT(read_res)) = 1


\* C19: if no issue call raises and every issued read is called back, the
\* run, with N >= 1 and 1 <= W <= N, reaches aggregation and prints the
\* report: under these premises it is never abandoned by an exception.
C19_RunReachesReport ==
  (/\ 1 <= ThreadsNum
   /\ ThreadsNum <= reads_num
   /\ \A i \in DOMAIN task : task[i] # "raised"
   /\ Outstanding = {}) =>
    pc # "raised"


\* bench_test has executed ioctx.close() (line 131)
IoctxClosed == ~ioctx_open /\ pc \notin {"main", "prepare"}

\* C20: the I/O context is closed only after all N reads have been
\* acknowledged: while it is closed no read is outstanding and none can still
\* be issued, and while a read is unissued or outstanding it is open.
C20_CloseAfterAllAcked ==
  /\ IoctxClosed =>
       /\ DOMAIN aio = 1..reads_num
       /\ \A i \in DOMAIN aio : aio[i] \in {"done", "failed"}
       /\ \A i \in DOMAIN task : ~ENABLED IssueRead(i)
  /\ (\E i \in DOMAIN aio : aio[i] \in {"none", "outstanding"}) => ioctx_open

C20_Witness ==
  /\ IoctxClosed
  /\ pc = "collect"
  /\ aio = <<"done", "failed">>

====
